---- MODULE Spec2Model ----
(***************************************************************************)
(* ubxScope: the spectrum aggregation of UBXScope.onUBXMessage, the        *)
(* scheduled publish UBXScope.updateSpectrumPlot, the reset                *)
(* UBXScope.cmaVisibleChangeHandler and the routing of UBXScopeQueue.      *)
(*                                                                         *)
(* Two execution contexts share spectrumDataSource.data without a lock:    *)
(* the reader thread of the message source runs onUBX / onUBXMessage, the  *)
(* rendering context runs the next-tick callbacks and the property-change  *)
(* handler.  onUBXMessage reads the shared mapping once per block for the  *)
(* maxima (line 320) and once for the average (line 323); the rendering    *)
(* context may run between any two of those reads, so each read is a step  *)
(* of its own.                                                             *)
(*                                                                         *)
(* Power values are held as integers scaled by Scale, so that the          *)
(* two-point average of line 323 is exact.                                 *)
(***************************************************************************)
EXTENDS Integers, Sequences, FiniteSets, TLC

\* ------------------------------------------------------------- bounds
\* Events the message source delivers in one run.
MaxEvents == 2
\* Times a hidden average trace is made visible again.
MaxResets == 1

\* ---------------------------------------------------------- constants
SPAN_BIN_COUNT == 256
numRfBlocks == 2

\* Every average is a power value halved at most MaxEvents times.
Scale == 2 ^ MaxEvents

\* ------------------------------------------------------------- inputs
\* The power values of two snapshots, repeated along the bin axis.
Snapshot1 == <<10, 20, 30, 40>>
Snapshot2 == <<15, 5, 35, 10>>
Patterns == <<Snapshot1, Snapshot2>>
BinCounts == {SPAN_BIN_COUNT, Len(Snapshot1)}

\* A decoded message as the source hands it over: its class name and, for
\* SPAN, the reported block count, the bin count and which power pattern.
\* A message reports fewer blocks than the scope tracks, as many, or more; the
\* messages that report as many come with either bin count and either pattern.
MsgBlockCounts == (numRfBlocks - 1)..(numRfBlocks + 1)
SpanMessages ==
  {m \in [kind : {"SPAN"}, numRfBlocks : MsgBlockCounts, binCount : BinCounts,
          variant : 1..Len(Patterns)] :
     m.numRfBlocks # numRfBlocks => (m.binCount = SPAN_BIN_COUNT /\ m.variant = 1)}
OtherMessages ==
  [kind : {"PVT", "RXM"}, numRfBlocks : {0}, binCount : {0}, variant : {0}]
NoMessage == [kind |-> "none", numRfBlocks |-> 0, binCount |-> 0, variant |-> 0]

PowerAt(m, b, i) == Patterns[m.variant][((i - 1 + b) % Len(Snapshot1)) + 1]

\* msg.spectra[b]
Spectra(m, b) ==
  [spectrumBinCenterFreqs |->
     [i \in 1..m.binCount |-> 1000 * (b + 1) + 100 * m.variant + i],
   spectrum |-> [i \in 1..m.binCount |-> Scale * PowerAt(m, b, i)],
   pga |-> 50 + 10 * b + m.variant]

\* ------------------------------------------------------------ helpers
\* f'<seriesKind>_<block>'
Key(kind, b) == <<kind, b>>
SeriesKinds == {"spectrumBinCenterFreqs", "spectrumMaxima", "spectrumCMA", "spectrum"}
TrackedBlocks == 0..(numRfBlocks - 1)

zeros(n) == [i \in 1..n |-> 0]

EmptyDict == [k \in {} |-> <<>>]
Put(d, k, v) == [x \in DOMAIN d \cup {k} |-> IF x = k THEN v ELSE d[x]]

\* np.maximum / np.mean(np.array([a, b]), axis=0) need operands of one shape
\* (no series of the inputs has length 1, so nothing is broadcast).
SameShape(a, b) == Len(a) = Len(b)
maximum(a, b) == [i \in 1..Len(a) |-> IF a[i] >= b[i] THEN a[i] ELSE b[i]]
mean(a, b) == [i \in 1..Len(a) |-> (a[i] + b[i]) \div 2]

\* Elements of the metadata list and the text of a label.
PyInt(n) == <<"int", n>>
PyNone == <<"None">>
PyDict(pga) == <<"dict", pga>>
IsDict(x) == x[1] = "dict"
NO_DATA == <<"NO_DATA">>
LabelText(pgaGain) == <<"PGA Gain: ", pgaGain, " dB">>

\* the data source mapping built by the constructor
InitialData ==
  [k \in SeriesKinds \X TrackedBlocks |-> zeros(SPAN_BIN_COUNT)]

\* -------------------------------------------------------------- state
VARIABLES
  sink,                 \* spectrumDataSource.data
  labels,               \* blockMetadataLabels[i].text
  pending,              \* the document's next-tick callbacks, oldest first
  pc,                   \* where the reader thread is in onUBXMessage
  msg,                  \* onUBXMessage: msg
  block,                \* onUBXMessage: the loop index
  newSpectrumData,      \* onUBXMessage: newSpectrumData
  newSpectrumMetaData,  \* onUBXMessage: newSpectrumMetaData
  raised,               \* the exception a handler raised last, or "none"
  delivered,            \* history: the SPAN messages the source delivered
  updates,              \* history: times the aggregation branch was entered
  published,            \* history: next-tick callbacks executed
  others,               \* history: events of the source that were not SPAN
  resets,               \* history: firings of the 'visible' handler with new == True
  sinceReset,           \* history: SPAN messages begun since the last reset, -1 before any
  sync                  \* history: no reset yet and every message found the backlog empty

locals == <<pc, msg, block, newSpectrumData, newSpectrumMetaData>>
shared == <<sink, labels, pending>>
history == <<delivered, updates, published, others, resets, sinceReset, sync>>
vars == <<sink, labels, pending, pc, msg, block, newSpectrumData,
          newSpectrumMetaData, raised, delivered, updates, published,
          others, resets, sinceReset, sync>>

Init ==
  /\ sink = InitialData
  /\ labels = [b \in TrackedBlocks |-> NO_DATA]
  /\ pending = <<>>
  /\ pc = "idle"
  /\ msg = NoMessage
  /\ block = 0
  /\ newSpectrumData = EmptyDict
  /\ newSpectrumMetaData = <<>>
  /\ raised = "none"
  /\ delivered = <<>>
  /\ updates = 0
  /\ published = 0
  /\ others = 0
  /\ resets = 0
  /\ sinceReset = -1
  /\ sync = TRUE

\* ------------------------------------------------------ reader thread
\* The handler ends with exception e: nothing is scheduled.
Raise(e) ==
  /\ raised' = e
  /\ pc' = "idle"
  /\ msg' = NoMessage
  /\ block' = 0
  /\ newSpectrumData' = EmptyDict
  /\ newSpectrumMetaData' = <<>>

\* (a branch that takes position fixes for spectra as well)
IsSpectrumOrFixClass(msgClass) == msgClass \in {"SPAN", "PVT"}

\* if msgClass == 'SPAN'
IsSpectrumClass(msgClass) == msgClass = "SPAN"

\* if msg.__class__.__name__ in ['SPAN', 'PVT']
IsForwarded(m) == m.kind \in {"SPAN", "PVT"}

\* Only a SPAN message has numRfBlocks and spectra.
HasSpectra(m) == m.kind = "SPAN"

\* onUBXMessage up to the first read of the shared mapping.
onUBXMessage(m, msgClass) ==
  IF IsSpectrumClass(msgClass)
  THEN /\ updates' = updates + 1
       /\ sinceReset' = IF sinceReset >= 0 THEN sinceReset + 1 ELSE sinceReset
       /\ sync' = (sync /\ pending = <<>>)
       /\ IF HasSpectra(m)
          THEN /\ newSpectrumData' = EmptyDict
               /\ newSpectrumMetaData' = <<PyInt(numRfBlocks), PyNone>>
               /\ msg' = m
               /\ block' = 0
               /\ pc' = IF 0 < m.numRfBlocks THEN "maxima" ELSE "schedule"
               /\ UNCHANGED raised
          ELSE Raise("AttributeError")
  ELSE UNCHANGED <<locals, raised, updates, sinceReset, sync>>

\* The reader thread is between two messages and the source has more.
SourceReady == pc = "idle" /\ Len(delivered) + others < MaxEvents

\* The source delivers a decoded UBX message.
onUBX(m) ==
  /\ SourceReady
  /\ delivered' = IF m.kind = "SPAN" THEN Append(delivered, m) ELSE delivered
  /\ others' = IF m.kind = "SPAN" THEN others ELSE others + 1
  /\ IF IsForwarded(m)
     THEN onUBXMessage(m, m.kind)
     ELSE UNCHANGED <<locals, raised, updates, sinceReset, sync>>
  /\ UNCHANGED <<shared, published, resets>>

\* onUBXError, onNMEA, onNMEAError: return
onUBXError ==
  /\ SourceReady
  /\ others' = others + 1
  /\ UNCHANGED <<shared, locals, raised, delivered, updates, published, resets,
                 sinceReset, sync>>

onNMEA ==
  /\ SourceReady
  /\ others' = others + 1
  /\ UNCHANGED <<shared, locals, raised, delivered, updates, published, resets,
                 sinceReset, sync>>

onNMEAError ==
  /\ SourceReady
  /\ others' = others + 1
  /\ UNCHANGED <<shared, locals, raised, delivered, updates, published, resets,
                 sinceReset, sync>>

\* Lines 314-320 for the current block: the two series taken from the
\* message, and the maximum against the mapping the sink holds now.
MaximaOf(current, previous) == maximum(current, previous)

CalcMaxima ==
  /\ pc = "maxima"
  /\ LET s == Spectra(msg, block)
         d == Put(Put(newSpectrumData,
                      Key("spectrumBinCenterFreqs", block), s.spectrumBinCenterFreqs),
                  Key("spectrum", block), s.spectrum)
         k == Key("spectrumMaxima", block)
     IN IF k \notin DOMAIN sink THEN Raise("KeyError")
        ELSE IF ~SameShape(s.spectrum, sink[k]) THEN Raise("ValueError")
        ELSE /\ newSpectrumData' = Put(d, k, MaximaOf(s.spectrum, sink[k]))
             /\ pc' = "cma"
             /\ UNCHANGED <<msg, block, newSpectrumMetaData, raised>>
  /\ UNCHANGED <<shared, history>>

\* Lines 323-328 for the current block: the two-point average against the
\* mapping the sink holds now, then the metadata, then the loop test.
CMAOf(current, previous) == mean(current, previous)

CalcCMA ==
  /\ pc = "cma"
  /\ LET s == Spectra(msg, block)
         k == Key("spectrumCMA", block)
     IN IF k \notin DOMAIN sink THEN Raise("KeyError")
        ELSE IF ~SameShape(s.spectrum, sink[k]) THEN Raise("ValueError")
        ELSE IF block + 1 > Len(newSpectrumMetaData) THEN Raise("IndexError")
        ELSE /\ newSpectrumData' = Put(newSpectrumData, k, CMAOf(s.spectrum, sink[k]))
             /\ newSpectrumMetaData' =
                  [newSpectrumMetaData EXCEPT ![block + 1] = PyDict(s.pga)]
             /\ block' = block + 1
             /\ pc' = IF block + 1 < msg.numRfBlocks THEN "maxima" ELSE "schedule"
             /\ UNCHANGED <<msg, raised>>
  /\ UNCHANGED <<shared, history>>

\* self.doc.add_next_tick_callback(partial(self.updateSpectrumPlot, ...))
Callback(spectrumData, spectrumMetaData) ==
  [spectrumData |-> spectrumData, spectrumMetaData |-> spectrumMetaData]

Schedule ==
  /\ pc = "schedule"
  /\ pending' = Append(pending, Callback(newSpectrumData, newSpectrumMetaData))
  /\ pc' = "idle"
  /\ msg' = NoMessage
  /\ block' = 0
  /\ newSpectrumData' = EmptyDict
  /\ newSpectrumMetaData' = <<>>
  /\ UNCHANGED <<sink, labels, raised, history>>

\* -------------------------------------------------- rendering context
\* The label loop of updateSpectrumPlot stops at the first element of the
\* metadata list that is no dict (block['pga'] raises TypeError).
FirstBad(spectrumMetaData) ==
  LET bad == {i \in 1..Len(spectrumMetaData) : ~IsDict(spectrumMetaData[i])}
  IN IF bad = {} THEN Len(spectrumMetaData) + 1
     ELSE CHOOSE i \in bad : \A j \in bad : i <= j

LabelsAfter(old, spectrumMetaData) ==
  [b \in DOMAIN old |->
     IF b + 1 < FirstBad(spectrumMetaData) /\ b + 1 <= Len(spectrumMetaData)
     THEN LabelText(spectrumMetaData[b + 1][2])
     ELSE old[b]]

updateSpectrumPlot(spectrumData, spectrumMetaData) ==
  /\ sink' = spectrumData
  /\ labels' = LabelsAfter(labels, spectrumMetaData)
  /\ raised' = IF FirstBad(spectrumMetaData) <= Len(spectrumMetaData)
               THEN "TypeError" ELSE raised

\* The rendering context runs the oldest next-tick callback.
NextTick ==
  /\ pending # <<>>
  /\ updateSpectrumPlot(Head(pending).spectrumData, Head(pending).spectrumMetaData)
  /\ pending' = Tail(pending)
  /\ published' = published + 1
  /\ UNCHANGED <<locals, delivered, updates, others, resets, sinceReset, sync>>

\* np.zeros(256) of the handler
ResetBinCount == 256

\* (a handler that clears the maximum hold as well)
ResetKindsWithMaxima == {"spectrumCMA", "spectrumMaxima"}

\* The series the handler assigns.
ResetKinds == {"spectrumCMA"}

ResetData(data) ==
  LET ks == ResetKinds \X TrackedBlocks
  IN [k \in DOMAIN data \cup ks |->
        IF k \in ks THEN zeros(ResetBinCount) ELSE data[k]]

cmaVisibleChangeHandler(new) ==
  IF new = TRUE
  THEN /\ resets < MaxResets
       /\ resets' = resets + 1
       /\ sink' = ResetData(sink)
       /\ sinceReset' = 0
       /\ sync' = FALSE
       /\ UNCHANGED <<labels, pending, locals, raised, delivered, updates,
                      published, others>>
  ELSE UNCHANGED vars

\* ------------------------------------------------------ specification
Next ==
  \/ \E m \in SpanMessages \cup OtherMessages : onUBX(m)
  \/ onUBXError
  \/ onNMEA
  \/ onNMEAError
  \/ CalcMaxima
  \/ CalcCMA
  \/ Schedule
  \/ NextTick
  \/ \E new \in BOOLEAN : cmaVisibleChangeHandler(new)

Spec == Init /\ [][Next]_vars

\* ------------------------------------------------------------- claims
AllKeys == SeriesKinds \X TrackedBlocks
Has(data, kind, b) == Key(kind, b) \in DOMAIN data

\* A snapshot that supplies exactly the tracked blocks.
SuppliesTracked(m) == m.numRfBlocks = numRfBlocks
FullSize(m) == m.binCount = SPAN_BIN_COUNT
Current(m, b) == Spectra(m, b).spectrum
Half(a) == [i \in 1..Len(a) |-> a[i] \div 2]
Scaled(a) == [i \in 1..Len(a) |-> Scale * a[i]]

\* Elementwise maximum of the current series of snapshots 1..k, block b.
RECURSIVE TrueMaximum(_, _)
TrueMaximum(b, k) ==
  IF k = 0 THEN zeros(SPAN_BIN_COUNT)
  ELSE maximum(Current(delivered[k], b), TrueMaximum(b, k - 1))

\* The recurrence of the update from the all-zero state, for snapshots 1..k.
RECURSIVE ExpectedMaxima(_, _)
ExpectedMaxima(b, k) ==
  IF k = 0 THEN zeros(delivered[1].binCount)
  ELSE maximum(Current(delivered[k], b), ExpectedMaxima(b, k - 1))

RECURSIVE ExpectedCMA(_, _)
ExpectedCMA(b, k) ==
  IF k = 0 THEN zeros(delivered[1].binCount)
  ELSE mean(Current(delivered[k], b), ExpectedCMA(b, k - 1))

\* C1: with no reset and snapshots of the fixed bin count for the tracked
\* blocks, after the publish of snapshot k the running maximum in the sink is
\* the elementwise maximum of the current series of snapshots 1..k (so it
\* never decreases from one publish to the next).
C1_RunningMaximum ==
  ( /\ resets = 0
    /\ published >= 1
    /\ \A i \in 1..Len(delivered) :
         SuppliesTracked(delivered[i]) /\ FullSize(delivered[i]) )
  => \A b \in TrackedBlocks :
       /\ Has(sink, "spectrumMaxima", b)
       /\ sink[Key("spectrumMaxima", b)] = TrueMaximum(b, published)

C3_FirstUpdateAfterReset ==
  (pc = "schedule" /\ sinceReset = 1) =>
    \A b \in 0..(msg.numRfBlocks - 1) :
      /\ newSpectrumData[Key("spectrumMaxima", b)] = Current(msg, b)
      /\ newSpectrumData[Key("spectrumCMA", b)] = Half(Current(msg, b))

\* C4: from the initial state, with no reset and every publish executed before
\* the next snapshot is handled, once snapshots 1..k of one bin count for the
\* tracked blocks are handled and published the sink holds, per block, current
\* = snapshot k, maximum = max(current, maximum of k-1), mean = (current + mean
\* of k-1) / 2; so [10,20,30,40] gives max [10,20,30,40], mean [5,10,15,20]
\* and [15,5,35,10] after it gives max [15,20,35,40], mean [10,7.5,25,15].
C4_UpdateRecurrence ==
  ( /\ sync
    /\ pc = "idle"
    /\ pending = <<>>
    /\ delivered # <<>>
    /\ \A i \in 1..Len(delivered) :
         /\ SuppliesTracked(delivered[i])
         /\ delivered[i].binCount = delivered[1].binCount )
  => LET k == Len(delivered)
     IN /\ published = k
        /\ \A b \in TrackedBlocks :
             /\ sink[Key("spectrum", b)] = Current(delivered[k], b)
             /\ sink[Key("spectrumMaxima", b)] = ExpectedMaxima(b, k)
             /\ sink[Key("spectrumCMA", b)] = ExpectedCMA(b, k)
        /\ ( /\ delivered[1].binCount = Len(Snapshot1)
             /\ delivered[1].variant = 1 )
           => IF k = 1
              THEN /\ sink[Key("spectrumMaxima", 0)] = Scaled(<<10, 20, 30, 40>>)
                   /\ sink[Key("spectrumCMA", 0)] = Scaled(<<5, 10, 15, 20>>)
              ELSE delivered[2].variant = 2 =>
                   /\ sink[Key("spectrumMaxima", 0)] = Scaled(<<15, 20, 35, 40>>)
                   /\ sink[Key("spectrumCMA", 0)] =
                        Half(Scaled(<<20, 15, 50, 30>>))

\* The recurrence of C4 for snapshots of SPAN_BIN_COUNT bins, the length of
\* the initial series (auxiliary: it shows that C4 fails for no other reason
\* than the bin count of its example).
FullSizeUpdateRecurrence ==
  ( /\ sync
    /\ pc = "idle"
    /\ pending = <<>>
    /\ delivered # <<>>
    /\ \A i \in 1..Len(delivered) :
         SuppliesTracked(delivered[i]) /\ FullSize(delivered[i]) )
  => LET k == Len(delivered)
     IN /\ published = k
        /\ \A b \in TrackedBlocks :
             /\ sink[Key("spectrum", b)] = Current(delivered[k], b)
             /\ sink[Key("spectrumMaxima", b)] = ExpectedMaxima(b, k)
             /\ sink[Key("spectrumCMA", b)] = ExpectedCMA(b, k)
             /\ \A i \in 1..SPAN_BIN_COUNT :
                  2 * ExpectedCMA(b, k)[i] =
                    Current(delivered[k], b)[i] + ExpectedCMA(b, k - 1)[i]

\* Every two-point average taken is exact in the scaled integers.
AveragesExact ==
  (pc = "cma" /\ Has(sink, "spectrumCMA", block)
     /\ SameShape(Current(msg, block), sink[Key("spectrumCMA", block)]))
  => \A i \in 1..msg.binCount :
       (Current(msg, block)[i] + sink[Key("spectrumCMA", block)][i]) % 2 = 0

\* C5: every mapping scheduled for publishing, and so the sink in every state,
\* has exactly the 4 x numRfBlocks keys <seriesKind>_<blockIndex>.
C5_ExactKeys ==
  /\ \A i \in 1..Len(pending) : DOMAIN pending[i].spectrumData = AllKeys
  /\ DOMAIN sink = AllKeys

\* C6: a snapshot whose bin count differs from the length of the series the
\* sink holds raises no error, and the maximum computed for it is its current
\* series (re-baselined to the new length).
C6_BinCountChange ==
  /\ raised # "ValueError"
  /\ \A b \in TrackedBlocks :
       ( /\ pc = "cma"
         /\ block = b
         /\ msg.binCount # SPAN_BIN_COUNT )
       => newSpectrumData[Key("spectrumMaxima", b)] = Current(msg, b)

\* C7: the aggregation has been entered once per SPAN message delivered, and an
\* event of the source that is no SPAN message leaves the sink, the labels, the
\* backlog and the reader's position unchanged.
C7_OnlySpanAggregates ==
  [][ /\ updates' - updates = Len(delivered') - Len(delivered)
      /\ others' = others + 1 =>
           UNCHANGED <<sink, labels, pending, pc, newSpectrumData, raised>> ]_vars

\* Both a SPAN message and another event were delivered, and the SPAN message
\* was aggregated and published.
C7_Witness ==
  /\ others > 0
  /\ Len(delivered) > 0
  /\ updates = Len(delivered)
  /\ published > 0

\* C8: between two messages, the pending publish requests are the snapshots
\* received minus the publishes executed (one request per snapshot, none
\* merged or dropped).
C8_OneRequestPerSnapshot ==
  pc = "idle" => Len(pending) = Len(delivered) - published

\* C9: once the backlog is empty, the sink's current series and bin frequencies
\* of every tracked block are those of the snapshot received last, and each
\* label shows that snapshot's gain.
C9_SinkShowsLastSnapshot ==
  (pc = "idle" /\ pending = <<>> /\ delivered # <<>>) =>
    LET last == delivered[Len(delivered)]
    IN \A b \in TrackedBlocks :
         /\ Has(sink, "spectrum", b)
         /\ Has(sink, "spectrumBinCenterFreqs", b)
         /\ sink[Key("spectrum", b)] = Current(last, b)
         /\ sink[Key("spectrumBinCenterFreqs", b)] =
              Spectra(last, b).spectrumBinCenterFreqs
         /\ labels[b] = LabelText(Spectra(last, b).pga)

\* C10: in the sink, at every bin of every block, the running maximum is at
\* least the current value and at least the running mean.
C10_MaximumOnTop ==
  \A b \in TrackedBlocks :
    ( /\ Has(sink, "spectrumMaxima", b)
      /\ Has(sink, "spectrum", b)
      /\ Has(sink, "spectrumCMA", b) )
    => \A i \in 1..Len(sink[Key("spectrumMaxima", b)]) :
         /\ sink[Key("spectrumMaxima", b)][i] >= sink[Key("spectrum", b)][i]
         /\ sink[Key("spectrumMaxima", b)][i] >= sink[Key("spectrumCMA", b)][i]

====
